---------------------------- MODULE Spec2Model ----------------------------
(***************************************************************************)
(* StringMatcher (src/stringmatcher.py): construction of a matcher from a  *)
(* pattern and a case flag, and the two searches naive and boyer_moore.    *)
(*                                                                         *)
(* A Python str is a sequence of characters; a character is a TLA+ string  *)
(* naming one code point ("a", "I", "U0130" for U+0130, "U0307" for        *)
(* U+0307, " " for the space).  Python indices are 0-based; the helpers    *)
(* PyGet and PySlice translate to the 1-based sequences of TLA+.           *)
(***************************************************************************)
EXTENDS Integers, Sequences, FiniteSets

VARIABLES
    arg_pattern,            \* __init__'s argument pattern
    arg_case,               \* __init__'s argument case
    ctor_pc,                \* position of the constructor
    attrs,                  \* names of the attributes assigned on self
    _pattern,               \* self._pattern
    _bad_char_heuristic,    \* self._bad_char_heuristic (a dict)
    _good_suffix_heuristic, \* self._good_suffix_heuristic (a list)
    case,                   \* self.case
    gs_j,                   \* _good_suffix_shifts: loop variable j
    shifts,                 \* _good_suffix_shifts: local list shifts
    suffix,                 \* _start_of_longest_sfx_as_pfx: local suffix
    exception,              \* the exception raised by the constructor
    calls,                  \* per caller: the frame of its running search
    searched                \* whether a search has returned before

vars == <<arg_pattern, arg_case, ctor_pc, attrs, _pattern, _bad_char_heuristic,
          _good_suffix_heuristic, case, gs_j, shifts, suffix, exception,
          calls, searched>>

matcher == <<attrs, _pattern, _bad_char_heuristic, _good_suffix_heuristic, case>>

ctor_locals == <<gs_j, shifts, suffix>>

-----------------------------------------------------------------------------
(* Bounds of the model.                                                    *)

\* Longest pattern and text over PlainChars.
MaxPatLen == 3

MaxTextLen == 5

\* Longest pattern and text over FoldChars.
MaxFoldLen == 2

\* Length of the patterns and of the texts searched concurrently.
ConcPatLen == 2

ConcTextLen == 3

-----------------------------------------------------------------------------
(* Python built-ins used by the code.                                      *)

Min(a, b) == IF a <= b THEN a ELSE b

\* max(a, b) of two integers
Max(a, b) == IF a >= b THEN a ELSE b

\* The index a slice bound i denotes in a sequence of length n.
SliceBound(i, n) == IF i < 0 THEN Max(i + n, 0) ELSE Min(i, n)

\* s[lo:hi]
PySlice(s, lo, hi) ==
    LET a == SliceBound(lo, Len(s))
        b == SliceBound(hi, Len(s))
    IN  IF a >= b THEN <<>> ELSE SubSeq(s, a + 1, b)

\* s[i] does not raise IndexError
PyInRange(s, i) == -Len(s) <= i /\ i < Len(s)

\* s[i], for an index in range
PyGet(s, i) == IF i < 0 THEN s[Len(s) + i + 1] ELSE s[i + 1]

\* d.get(k, default)
DictGet(d, k, default) == IF k \in DOMAIN d THEN d[k] ELSE default

\* An assignment that keeps the value of a key already present.
DictSetIfAbsent(d, k, v) ==
    [x \in (DOMAIN d) \cup {k} |-> IF x \in DOMAIN d THEN d[x] ELSE v]

\* d[k] = v
DictSet(d, k, v) == [x \in (DOMAIN d) \cup {k} |-> IF x = k THEN v ELSE d[x]]

\* The empty dict.
EmptyDict == [x \in {} |-> 0]

\* pattern.startswith(sfx)
StartsWith(p, sfx) == Len(sfx) <= Len(p) /\ SubSeq(p, 1, Len(sfx)) = sfx

\* str.lower() of one character: the upper-case letters map to their
\* lower-case letter, U+0130 maps to the two characters U+0069 U+0307, and
\* every other character maps to itself.
LowerChar(c) ==
    CASE c = "A" -> <<"a">>
      [] c = "B" -> <<"b">>
      [] c = "C" -> <<"c">>
      [] c = "G" -> <<"g">>
      [] c = "I" -> <<"i">>
      [] c = "T" -> <<"t">>
      [] c = "U0130" -> <<"i", "U0307">>
      [] OTHER -> <<c>>

\* str.lower()
RECURSIVE Lower(_)
Lower(s) == IF s = <<>> THEN <<>> ELSE LowerChar(Head(s)) \o Lower(Tail(s))

-----------------------------------------------------------------------------
(* Table construction helpers.                                             *)

\* _rightmost_index_table: the loop from index j on, with table d so far
RECURSIVE RightmostIndexFrom(_, _, _)
RightmostIndexFrom(p, j, d) ==
    IF j >= Len(p) THEN d
    ELSE RightmostIndexFrom(p, j + 1, DictSet(d, PyGet(p, j), j))

_rightmost_index_table(p) == RightmostIndexFrom(p, 0, EmptyDict)

\* _rightmost_substr_start: the loop for i in range(len(pattern) - m, -1, -1),
\* from index i on
RECURSIVE RightmostSubstrFrom(_, _, _)
RightmostSubstrFrom(subpattern, p, i) ==
    IF i < 0 THEN -1
    ELSE IF subpattern = PySlice(p, i, i + Len(subpattern)) THEN i
    ELSE RightmostSubstrFrom(subpattern, p, i - 1)

\* A search from the left, which finds the leftmost occurrence.
RECURSIVE LeftmostSubstrFrom(_, _, _)
LeftmostSubstrFrom(subpattern, p, i) ==
    IF i > Len(p) - Len(subpattern) THEN -1
    ELSE IF subpattern = PySlice(p, i, i + Len(subpattern)) THEN i
    ELSE LeftmostSubstrFrom(subpattern, p, i + 1)

_leftmost_substr_start(subpattern, p) == LeftmostSubstrFrom(subpattern, p, 0)

_rightmost_substr_start(subpattern, p) ==
    RightmostSubstrFrom(subpattern, p, Len(p) - Len(subpattern))

\* The draft's _start_of_longest_suffix_as_prefix (first.py).
RECURSIVE _start_of_longest_suffix_as_prefix(_, _)
_start_of_longest_suffix_as_prefix(subpattern, p) ==
    IF Len(subpattern) > 1
    THEN LET sub == PySlice(subpattern, 1, Len(subpattern))
         IN  IF StartsWith(p, sub) THEN Len(p) - Len(sub)
             ELSE _start_of_longest_suffix_as_prefix(sub, p)
    ELSE Len(p)

\* The draft's _good_suffix (first.py): its loop from j on, with the list
\* built so far, and the final append of 1.  Its _rightmost_start_of_substr
\* is the code of _rightmost_substr_start.
RECURSIVE GoodSuffixFrom(_, _, _)
GoodSuffixFrom(p, j, l) ==
    IF j < Len(p) - 1
    THEN LET good_suffix == PySlice(p, j + 1, Len(p))
             rightmost_occurrence ==
                 _rightmost_substr_start(good_suffix, PySlice(p, 0, -1))
         IN  IF rightmost_occurrence = -1
             THEN GoodSuffixFrom(p, j + 1,
                      Append(l, _start_of_longest_suffix_as_prefix(good_suffix, p)))
             ELSE GoodSuffixFrom(p, j + 1, Append(l, j + 1 - rightmost_occurrence))
    ELSE Append(l, 1)

_good_suffix(p) == GoodSuffixFrom(p, 0, <<>>)

\* The length of the suffix in place of its starting index.
SfxShiftLength(p, sfx) == Len(sfx)

\* A shift by the whole pattern, whatever suffix is a prefix.
SfxShiftWhole(p, sfx) == Len(p)

\* the value _start_of_longest_sfx_as_pfx returns for the suffix it stops at
SfxShift(p, sfx) == Len(p) - Len(sfx)

\* A test that rejects no pattern.
InvalidPatternNever(p) == FALSE

\* the test of __init__ that rejects the pattern
InvalidPattern(p) == Len(p) = 0

\* the pattern __init__ stores
StoredPattern(p, c) == IF ~c THEN Lower(p) ELSE p

-----------------------------------------------------------------------------
(* Inputs.                                                                 *)

\* All sequences over S of length at most n.
SeqsUpTo(S, n) == UNION {[1..k -> S] : k \in 0..n}

\* Lower-case letters: the family on which the two searches are compared.
PlainChars == {"a", "b"}

\* Characters that str.lower() changes, and what it changes them to.
FoldChars == {"i", "U0130", "U0307"}

DemoPattern ==
    <<"h", "o", "l", "a", "l", "a">>

DemoText ==
    <<"h", "e", " ", "h", "o", "l", "a", "l", "a", " ", "h", "a", "l", "l",
      "o", " ", "h", "o", "l", "a", " ", "h", "o", "l", "a", " ", "h", "o",
      "l", "a", " ", "h", "a", " ", "h", "o", "l", "a", "l", "a", "l", "a",
      "h", "o", " ", "h", "o", "s", " ", "h", "o", "l", "a", " ", "h", "o",
      "l", "a", " ", "h", "o", "l", "a", "l", "a">>

DnaPattern ==
    <<"T", "G", "A">>

\* The first 15 characters of the demo's DNA sequence.
DnaText ==
    <<"t", "g", "a", "T", "G", "A", "T", "C", "T", "G", "A", "T", "A", "G",
      "A">>

\* The pattern of the good-suffix demo.
GsPattern ==
    <<"a", "b", "a", "b", "b", "a", "b", "a", "c", "a", "b">>

\* The text that goes with it.
GsText ==
    <<"a", "b", "a", "b", "a", "b", "b", "b", "c", "a", "b", "a", "b", "a">>

\* The pattern of the bad-character example.
BobPattern ==
    <<"b", "o", "b">>

\* Texts searched for it: one of its own characters, one with a character
\* that the pattern lacks.
BobTexts ==
    {<<"b", "o", "b", "o", "b">>, <<"b", "x", "b", "o", "b">>}

PlainPatterns == SeqsUpTo(PlainChars, MaxPatLen)

FoldPatterns == SeqsUpTo(FoldChars, MaxFoldLen) \ {<<>>}

DnaPatterns == {DnaPattern, Lower(DnaPattern)}

\* The patterns a matcher is constructed from, the empty one included.
Patterns ==
    PlainPatterns \cup FoldPatterns \cup DnaPatterns
        \cup {DemoPattern, GsPattern, BobPattern}

\* The texts searched by a matcher constructed from pattern p.
TextsFor(p) ==
    IF p = DemoPattern THEN {DemoText}
    ELSE IF p = GsPattern THEN {GsText}
    ELSE IF p = BobPattern THEN BobTexts
    ELSE IF p \in DnaPatterns THEN {DnaText, Lower(DnaText)}
    ELSE IF p \in FoldPatterns THEN SeqsUpTo(FoldChars, MaxFoldLen)
    ELSE SeqsUpTo(PlainChars, MaxTextLen)

\* The texts searched concurrently.
ConcTexts == [1..ConcTextLen -> PlainChars]

\* The patterns of the matcher that is searched concurrently.
ConcPatterns == [1..ConcPatLen -> PlainChars]

\* The one caller of the searches made one after the other.
SeqCallers == {1}

\* The callers of the searches made concurrently on one matcher.
ConcCallers == {1, 2}

\* A caller that runs no search.
IdleFrame ==
    [pc |-> "idle", alg |-> "none", arg |-> <<>>, text |-> <<>>, m |-> 0,
     shift |-> 0, positions |-> <<>>, iters |-> 0, exc |-> "none"]

-----------------------------------------------------------------------------
(* Construction: StringMatcher(pattern, case).                             *)

InitWith(patterns, callers) ==
    /\ arg_pattern \in patterns
    /\ arg_case \in BOOLEAN
    /\ ctor_pc = "init"
    /\ attrs = {}
    /\ _pattern = <<>>
    /\ _bad_char_heuristic = EmptyDict
    /\ _good_suffix_heuristic = <<>>
    /\ case = TRUE
    /\ gs_j = 0
    /\ shifts = <<>>
    /\ suffix = <<>>
    /\ exception = "none"
    /\ calls = [c \in callers |-> IdleFrame]
    /\ searched = FALSE

Init == InitWith(Patterns, SeqCallers)

ConcInit == InitWith(ConcPatterns, ConcCallers)

\* __init__ up to the call of _good_suffix_shifts: the empty pattern raises,
\* any other is folded and stored, and the bad-character table is built.
Construct ==
    /\ ctor_pc = "init"
    /\ IF InvalidPattern(arg_pattern)
       THEN /\ ctor_pc' = "raised"
            /\ exception' = "EmptyStringException"
            /\ UNCHANGED <<attrs, _pattern, _bad_char_heuristic>>
       ELSE /\ ctor_pc' = "gs_for"
            /\ _pattern' = StoredPattern(arg_pattern, arg_case)
            /\ _bad_char_heuristic' = _rightmost_index_table(_pattern')
            /\ attrs' = {"_pattern", "_bad_char_heuristic"}
            /\ UNCHANGED exception
    /\ gs_j' = 0
    /\ shifts' = <<>>
    /\ UNCHANGED <<arg_pattern, arg_case, _good_suffix_heuristic, case, suffix,
                   calls, searched>>

\* _good_suffix_shifts: one iteration of for j in range(m - 1).  With an inner
\* occurrence of the good suffix the shift is appended; without one
\* _start_of_longest_sfx_as_pfx is entered.
GoodSuffixIter ==
    /\ ctor_pc = "gs_for"
    /\ gs_j < Len(_pattern) - 1
    /\ LET good_suffix == PySlice(_pattern, gs_j + 1, Len(_pattern))
           rightmost_occ ==
               _rightmost_substr_start(good_suffix, PySlice(_pattern, 0, -1))
       IN  IF rightmost_occ = -1
           THEN /\ ctor_pc' = "sfx_while"
                /\ suffix' = good_suffix
                /\ UNCHANGED <<gs_j, shifts>>
           ELSE /\ shifts' = Append(shifts, gs_j + 1 - rightmost_occ)
                /\ gs_j' = gs_j + 1
                /\ UNCHANGED <<ctor_pc, suffix>>
    /\ UNCHANGED <<arg_pattern, arg_case, matcher, exception, calls, searched>>

\* _start_of_longest_sfx_as_pfx: one iteration of while True.
SfxIter ==
    /\ ctor_pc = "sfx_while"
    /\ suffix' = PySlice(suffix, 1, Len(suffix))
    /\ IF StartsWith(_pattern, suffix')
       THEN /\ shifts' = Append(shifts, SfxShift(_pattern, suffix'))
            /\ gs_j' = gs_j + 1
            /\ ctor_pc' = "gs_for"
       ELSE UNCHANGED <<shifts, gs_j, ctor_pc>>
    /\ UNCHANGED <<arg_pattern, arg_case, matcher, exception, calls, searched>>

\* _good_suffix_shifts after its loop, and the rest of __init__: the final 1
\* is appended, the table and the case flag are stored.
FinishConstruct ==
    /\ ctor_pc = "gs_for"
    /\ ~(gs_j < Len(_pattern) - 1)
    /\ shifts' = Append(shifts, 1)
    /\ _good_suffix_heuristic' = shifts'
    /\ case' = arg_case
    /\ attrs' = attrs \cup {"_good_suffix_heuristic", "case"}
    /\ ctor_pc' = "ready"
    /\ UNCHANGED <<arg_pattern, arg_case, _pattern, _bad_char_heuristic, gs_j,
                   suffix, exception, calls, searched>>

-----------------------------------------------------------------------------
(* The searches.                                                           *)

\* Local variables kept in one place for all callers.
LocalShared(c) == calls[CHOOSE d \in DOMAIN calls : \A e \in DOMAIN calls : d <= e]

\* The local variables text, m, shift and positions of caller c's invocation.
Local(c) == calls[c]

\* A scan of the text as passed, whatever the case flag.
NaiveTextUnfolded(cs, text) == text

\* naive: the text it scans
NaiveText(cs, text) == IF ~cs THEN Lower(text) ELSE text

\* boyer_moore: the text it scans
BMText(cs, text) == IF ~cs THEN Lower(text) ELSE text

\* A range that stops one window early.
NaiveRangeEndShort(text, m) == Len(text) - m

\* naive: the end of range(len(text) - m + 1)
NaiveRangeEnd(text, m) == Len(text) - m + 1

\* naive: positions after the body of the loop at shift
NaiveBody(p, text, m, shift, positions) ==
    IF p = PySlice(text, shift, shift + m) THEN Append(positions, shift)
    ELSE positions

\* A loop that leaves out the last window.
BMContinueStrict(text, m, shift) == shift < Len(text) - m

\* boyer_moore: the test of the outer loop
BMContinue(text, m, shift) == shift <= Len(text) - m

\* boyer_moore: the inner loop from j on.  It ends at the j it stops at, or
\* raises IndexError on an index out of range.
RECURSIVE Scan(_, _, _, _)
Scan(p, text, shift, j) ==
    IF j > -1
    THEN IF ~PyInRange(p, j) \/ ~PyInRange(text, shift + j)
         THEN [j |-> j, raised |-> TRUE]
         ELSE IF PyGet(p, j) = PyGet(text, shift + j)
              THEN Scan(p, text, shift, j - 1)
              ELSE [j |-> j, raised |-> FALSE]
    ELSE [j |-> j, raised |-> FALSE]

\* An advance by the whole pattern after a complete match.
MatchShiftWholePattern(gs) == Len(gs)

\* boyer_moore: the advance after a complete match
MatchShift(gs) == PyGet(gs, 0)

\* An advance by the bad-character term alone.
MismatchShiftBadCharOnly(gs, bc, j, ch) == j - DictGet(bc, ch, -1)

\* boyer_moore: the advance after a mismatch at index j against character ch
MismatchShift(gs, bc, j, ch) == Max(PyGet(gs, j), j - DictGet(bc, ch, -1))

\* boyer_moore: the body of the outer loop at shift
BMBodyStep(p, bc, gs, text, m, shift, positions) ==
    LET s == Scan(p, text, shift, m - 1)
        raise == [raised |-> TRUE, shift |-> shift, positions |-> positions]
    IN  IF s.raised THEN raise
        ELSE IF s.j = -1
        THEN IF ~PyInRange(gs, 0) THEN raise
             ELSE [raised |-> FALSE, shift |-> shift + MatchShift(gs),
                   positions |-> Append(positions, shift)]
        ELSE IF ~PyInRange(gs, s.j) \/ ~PyInRange(text, shift + s.j) THEN raise
             ELSE [raised |-> FALSE,
                   shift |-> shift + MismatchShift(gs, bc, s.j,
                                                   PyGet(text, shift + s.j)),
                   positions |-> positions]

\* naive as a whole, from the loop at shift on
RECURSIVE NaiveFrom(_, _, _, _, _)
NaiveFrom(p, text, m, shift, positions) ==
    IF shift < NaiveRangeEnd(text, m)
    THEN NaiveFrom(p, text, m, shift + 1, NaiveBody(p, text, m, shift, positions))
    ELSE positions

\* naive(T) on a matcher with pattern p and case flag cs
naive(p, cs, T) == NaiveFrom(p, NaiveText(cs, T), Len(p), 0, <<>>)

\* boyer_moore as a whole, from the loop at shift on
RECURSIVE BMFrom(_, _, _, _, _, _, _)
BMFrom(p, bc, gs, text, m, shift, positions) ==
    IF BMContinue(text, m, shift)
    THEN LET r == BMBodyStep(p, bc, gs, text, m, shift, positions)
         IN  IF r.raised THEN <<"IndexError">>
             ELSE BMFrom(p, bc, gs, text, m, r.shift, r.positions)
    ELSE positions

\* boyer_moore(T) on a matcher with pattern p, tables bc and gs, case flag cs
boyer_moore(p, bc, gs, cs, T) ==
    BMFrom(p, bc, gs, BMText(cs, T), Len(p), 0, <<>>)

\* naive(text) begins: the text is folded, m and positions are set.
CallNaive(c, T) ==
    /\ ctor_pc = "ready"
    /\ calls[c].pc = "idle"
    /\ calls' = [calls EXCEPT ![c] =
                    [pc |-> "naive_for", alg |-> "naive", arg |-> T,
                     text |-> NaiveText(case, T), m |-> Len(_pattern),
                     shift |-> 0, positions |-> <<>>, iters |-> 0,
                     exc |-> "none"]]
    /\ UNCHANGED <<arg_pattern, arg_case, ctor_pc, matcher, ctor_locals,
                   exception, searched>>

\* naive: one iteration of for shift in range(len(text) - m + 1), or the
\* return when the range is exhausted.
NaiveStep(c) ==
    /\ calls[c].pc = "naive_for"
    /\ LET f == Local(c)
       IN  IF f.shift < NaiveRangeEnd(f.text, f.m)
           THEN calls' = [calls EXCEPT
                    ![c].positions =
                        NaiveBody(_pattern, f.text, f.m, f.shift, f.positions),
                    ![c].shift = f.shift + 1,
                    ![c].iters = @ + 1]
           ELSE calls' = [calls EXCEPT ![c].positions = f.positions,
                                       ![c].pc = "returned"]
    /\ UNCHANGED <<arg_pattern, arg_case, ctor_pc, matcher, ctor_locals,
                   exception, searched>>

\* A boyer_moore that rebuilds the bad-character table from its argument.
CallBMRebuilding(c, T) ==
    /\ ctor_pc = "ready"
    /\ calls[c].pc = "idle"
    /\ calls' = [calls EXCEPT ![c] =
                    [pc |-> "bm_while", alg |-> "boyer_moore", arg |-> T,
                     text |-> BMText(case, T), m |-> Len(_pattern),
                     shift |-> 0, positions |-> <<>>, iters |-> 0,
                     exc |-> "none"]]
    /\ _bad_char_heuristic' = _rightmost_index_table(T)
    /\ UNCHANGED <<arg_pattern, arg_case, ctor_pc, attrs, _pattern,
                   _good_suffix_heuristic, case, ctor_locals, exception,
                   searched>>

\* boyer_moore(text) begins: the text is folded, m, shift and positions are set.
CallBM(c, T) ==
    /\ ctor_pc = "ready"
    /\ calls[c].pc = "idle"
    /\ calls' = [calls EXCEPT ![c] =
                    [pc |-> "bm_while", alg |-> "boyer_moore", arg |-> T,
                     text |-> BMText(case, T), m |-> Len(_pattern),
                     shift |-> 0, positions |-> <<>>, iters |-> 0,
                     exc |-> "none"]]
    /\ UNCHANGED <<arg_pattern, arg_case, ctor_pc, matcher, ctor_locals,
                   exception, searched>>

\* boyer_moore: the test of while shift <= len(text) - m, which enters the
\* body or returns positions.
BMTest(c) ==
    /\ calls[c].pc = "bm_while"
    /\ LET f == Local(c)
       IN  IF BMContinue(f.text, f.m, f.shift)
           THEN calls' = [calls EXCEPT ![c].pc = "bm_body"]
           ELSE calls' = [calls EXCEPT ![c].positions = f.positions,
                                       ![c].pc = "returned"]
    /\ UNCHANGED <<arg_pattern, arg_case, ctor_pc, matcher, ctor_locals,
                   exception, searched>>

\* boyer_moore: the body of the outer loop: the scan from right to left, then
\* the recorded match or the advance past the mismatch.
BMBody(c) ==
    /\ calls[c].pc = "bm_body"
    /\ LET f == Local(c)
           r == BMBodyStep(_pattern, _bad_char_heuristic,
                           _good_suffix_heuristic, f.text, f.m, f.shift,
                           f.positions)
       IN  IF r.raised
           THEN calls' = [calls EXCEPT ![c].pc = "raised",
                                       ![c].exc = "IndexError"]
           ELSE calls' = [calls EXCEPT ![c].pc = "bm_while",
                                       ![c].shift = r.shift,
                                       ![c].positions = r.positions,
                                       ![c].iters = @ + 1]
    /\ UNCHANGED <<arg_pattern, arg_case, ctor_pc, matcher, ctor_locals,
                   exception, searched>>

\* The caller takes the returned list and is free to search again.
Collect(c) ==
    /\ calls[c].pc = "returned"
    /\ calls' = [calls EXCEPT ![c] = IdleFrame]
    /\ searched' = TRUE
    /\ UNCHANGED <<arg_pattern, arg_case, ctor_pc, matcher, ctor_locals,
                   exception>>

-----------------------------------------------------------------------------
(* Specifications.                                                         *)

Build == Construct \/ GoodSuffixIter \/ SfxIter \/ FinishConstruct

Search(c) == NaiveStep(c) \/ BMTest(c) \/ BMBody(c) \/ Collect(c)

\* One matcher, searched by one caller, one search after the other.
Next ==
    \/ Build
    \/ \E c \in SeqCallers :
          \/ \E T \in TextsFor(arg_pattern) : CallNaive(c, T) \/ CallBM(c, T)
          \/ Search(c)

Spec == Init /\ [][Next]_vars

\* A constructor or search that has begun keeps running.
FairSpec == Spec /\ WF_vars(Build) /\ \A c \in SeqCallers : WF_vars(Search(c))

\* One matcher, searched by two callers whose steps interleave.
ConcNext ==
    \/ Build
    \/ \E c \in ConcCallers :
          \/ \E T \in ConcTexts : CallNaive(c, T) \/ CallBM(c, T)
          \/ Search(c)

ConcSpec == ConcInit /\ [][ConcNext]_vars

-----------------------------------------------------------------------------
(* Reference definitions for the properties.                               *)

\* The pattern p occurs in text t at offset o.
Occurs(p, t, o) ==
    /\ 0 <= o
    /\ o <= Len(t) - Len(p)
    /\ SubSeq(t, o + 1, o + Len(p)) = p

\* The elements of a finite set of integers in ascending order.
RECURSIVE Ascending(_)
Ascending(S) ==
    IF S = {} THEN <<>>
    ELSE LET x == CHOOSE y \in S : \A z \in S : y <= z
         IN  <<x>> \o Ascending(S \ {x})

\* The offsets below bound at which p occurs in t, ascending.
OccurrencesBelow(p, t, bound) ==
    Ascending({o \in 0..(Len(t) - Len(p)) : o < bound /\ Occurs(p, t, o)})

\* All offsets at which p occurs in t, ascending.
Occurrences(p, t) == OccurrencesBelow(p, t, Len(t) + 1)

\* A list of integers in strictly ascending order.
StrictlyAscending(l) == \A i \in 1..(Len(l) - 1) : l[i] < l[i + 1]

\* The list a search of algorithm alg on text T returns from the matcher as
\* it stands, run on its own from start to end.
RunAlone(alg, T) ==
    IF alg = "naive" THEN naive(_pattern, case, T)
    ELSE boyer_moore(_pattern, _bad_char_heuristic, _good_suffix_heuristic,
                     case, T)

\* The other algorithm.
Other(alg) == IF alg = "naive" THEN "boyer_moore" ELSE "naive"

Returned(c) == calls[c].pc = "returned"

-----------------------------------------------------------------------------
(* Properties.                                                             *)

\* C1: whatever list a search returns, the other algorithm returns the same
\* list for the same text on the same matcher, in either case mode, and the
\* list is strictly ascending (so it has no duplicates).
C1_SameOffsets ==
    \A c \in DOMAIN calls :
        Returned(c) =>
            /\ calls[c].positions = RunAlone(Other(calls[c].alg), calls[c].arg)
            /\ StrictlyAscending(calls[c].positions)

\* A boyer_moore search of a case-insensitive matcher that returned several
\* offsets, two of them of overlapping occurrences.
C1_Witness ==
    \E c \in DOMAIN calls :
        /\ Returned(c)
        /\ calls[c].alg = "boyer_moore"
        /\ ~case
        /\ Len(calls[c].positions) >= 2
        /\ calls[c].positions[2] - calls[c].positions[1] < Len(_pattern)

\* C2: in case-sensitive mode either search returns exactly the ascending
\* list of all offsets o with 0 <= o <= len(T) - len(P) at which the text
\* equals the pattern, overlapping occurrences included.
C2_ExactlyTheOccurrences ==
    \A c \in DOMAIN calls :
        (Returned(c) /\ arg_case) =>
            calls[c].positions = Occurrences(arg_pattern, calls[c].arg)

\* naive has returned [0, 1, 2] for pattern "aa" in text "aaaa".
C2_Witness ==
    \E c \in DOMAIN calls :
        /\ Returned(c)
        /\ arg_case
        /\ calls[c].alg = "naive"
        /\ arg_pattern = <<"a", "a">>
        /\ calls[c].arg = <<"a", "a", "a", "a">>
        /\ calls[c].positions = <<0, 1, 2>>

\* C3: the constructor raises EmptyStringException exactly for the empty
\* pattern, in either case mode, and then no attribute of the matcher has
\* been assigned (no table built), and no matcher is ever ready.
C3_EmptyPatternRejected ==
    /\ (ctor_pc # "init" /\ arg_pattern = <<>>) =>
           /\ ctor_pc = "raised"
           /\ exception = "EmptyStringException"
           /\ attrs = {}
    /\ ctor_pc = "raised" => arg_pattern = <<>>

\* The constructor has raised for the empty pattern with case=False.
C3_Witness ==
    /\ ctor_pc = "raised"
    /\ arg_pattern = <<>>
    /\ ~arg_case

\* C4: a search never raises; inside the loop of boyer_moore
\* 0 <= shift <= len(text) - m for the text it scans; and a search of a text
\* T with len(T) < len(pattern) (the empty text included; T shorter than the
\* pattern as passed and as stored) returns the empty list.
C4_SearchTotal ==
    \A c \in DOMAIN calls :
        /\ calls[c].pc # "raised"
        /\ calls[c].pc = "bm_body" =>
               /\ 0 <= calls[c].shift
               /\ calls[c].shift <= Len(calls[c].text) - calls[c].m
        /\ (Returned(c)
               /\ Len(calls[c].arg) < Len(arg_pattern)
               /\ Len(calls[c].arg) < Len(_pattern)) =>
               calls[c].positions = <<>>

\* What holds of the code in place of C4: the empty list is returned when
\* the text as scanned (folded when case=False) is shorter than the pattern.
SearchTotalOnScannedText ==
    \A c \in DOMAIN calls :
        /\ calls[c].pc # "raised"
        /\ calls[c].pc = "bm_body" =>
               /\ 0 <= calls[c].shift
               /\ calls[c].shift <= Len(calls[c].text) - calls[c].m
        /\ (Returned(c) /\ Len(calls[c].text) < Len(_pattern)) =>
               calls[c].positions = <<>>

\* C5: a case-insensitive matcher stores the folded pattern and the tables
\* of the folded pattern, and either search returns the offsets that the
\* case-sensitive search for lower(P) returns on lower(T).
C5_CaseInsensitiveIsFoldedSearch ==
    /\ (ctor_pc = "ready" /\ ~arg_case) =>
           /\ _pattern = Lower(arg_pattern)
           /\ _bad_char_heuristic = _rightmost_index_table(Lower(arg_pattern))
    /\ \A c \in DOMAIN calls :
           (Returned(c) /\ ~arg_case) =>
               /\ calls[c].positions =
                      naive(Lower(arg_pattern), TRUE, Lower(calls[c].arg))
               /\ calls[c].positions =
                      Occurrences(Lower(arg_pattern), Lower(calls[c].arg))

\* boyer_moore of the matcher for "TGA" with case=False has returned
\* [0, 3, 8] on "tgaTGATCTGATAGA".
C5_Witness ==
    \E c \in DOMAIN calls :
        /\ Returned(c)
        /\ ~arg_case
        /\ arg_pattern = DnaPattern
        /\ calls[c].alg = "boyer_moore"
        /\ calls[c].arg = DnaText
        /\ calls[c].positions = <<0, 3, 8>>

\* C6: once the matcher is constructed no step changes its pattern, its two
\* tables or its case flag; a search that begins starts from an empty list,
\* and a search that returns, after whatever searches came before, returns
\* the list its algorithm gives for its text on the matcher as constructed.
C6_SearchesLeaveMatcherUnchanged ==
    [][ctor_pc = "ready" =>
          /\ UNCHANGED matcher
          /\ \A c \in DOMAIN calls :
                /\ (calls[c].pc = "idle" /\ calls'[c].pc # "idle") =>
                       calls'[c].positions = <<>>
                /\ calls'[c].pc = "returned" =>
                       calls'[c].positions =
                           RunAlone(calls'[c].alg, calls'[c].arg)]_vars

\* A search has returned a non-empty list after an earlier search returned.
C6_Witness ==
    \E c \in DOMAIN calls :
        /\ searched
        /\ Returned(c)
        /\ calls[c].positions # <<>>

\* C7: with the steps of two callers interleaved no search raises, every
\* search returns the list it returns when run alone, and the pattern, the
\* tables and the case flag keep the values the constructor gave them.
C7_ConcurrentSearchesAsAlone ==
    /\ \A c \in DOMAIN calls :
           /\ calls[c].pc # "raised"
           /\ Returned(c) =>
                  calls[c].positions = RunAlone(calls[c].alg, calls[c].arg)
    /\ ctor_pc = "ready" =>
           /\ _pattern = StoredPattern(arg_pattern, arg_case)
           /\ _bad_char_heuristic = _rightmost_index_table(_pattern)
           /\ _good_suffix_heuristic = shifts
           /\ case = arg_case

\* One caller's boyer_moore has returned a match while the other caller is
\* in the middle of a naive search of another text.
C7_Witness ==
    \E c, d \in DOMAIN calls :
        /\ c # d
        /\ Returned(c)
        /\ calls[c].alg = "boyer_moore"
        /\ calls[c].positions # <<>>
        /\ calls[d].pc = "naive_for"
        /\ calls[d].shift > 0
        /\ calls[d].arg # calls[c].arg

\* The search of the demo text for "holala" has returned.
DemoReturned(c) ==
    /\ Returned(c)
    /\ arg_pattern = DemoPattern
    /\ calls[c].arg = DemoText

\* C8 as stated: on the demo inputs both searches return the list of the two
\* occurrences of "holala", the one in the first word "holala" (offset 3)
\* and the one at the end of the text (offset 59).
C8_TwoOccurrences ==
    \A c \in DOMAIN calls : DemoReturned(c) => calls[c].positions = <<3, 59>>

\* C8 as amended: on the demo inputs both searches return [3, 34, 59], the
\* three occurrences of "holala": in the first word "holala", at the start
\* of "holalalaho" and at the end of the text.
C8_ThreeOccurrences ==
    \A c \in DOMAIN calls :
        DemoReturned(c) =>
            /\ calls[c].positions = <<3, 34, 59>>
            /\ RunAlone(Other(calls[c].alg), DemoText) = <<3, 34, 59>>
            /\ \A o \in {3, 34, 59} : Occurs(DemoPattern, DemoText, o)

\* boyer_moore has returned from the search of the demo text.
C8_Witness ==
    \E c \in DOMAIN calls : DemoReturned(c) /\ calls[c].alg = "boyer_moore"

\* C9: at the top of every iteration of boyer_moore's loop, and when it
\* returns, positions holds exactly the occurrences of the pattern in the
\* scanned text that start below shift: no advance skips an occurrence.
C9_NoOccurrenceSkipped ==
    \A c \in DOMAIN calls :
        (calls[c].alg = "boyer_moore"
            /\ calls[c].pc \in {"bm_while", "bm_body", "returned"}) =>
            calls[c].positions =
                OccurrencesBelow(_pattern, calls[c].text, calls[c].shift)

\* boyer_moore is back at the top of its loop after two iterations that
\* recorded one match and advanced the window by at least four in total.
C9_Witness ==
    \E c \in DOMAIN calls :
        /\ calls[c].pc = "bm_while"
        /\ calls[c].iters = 2
        /\ calls[c].shift >= 4
        /\ Len(calls[c].positions) = 1

\* The bad-character term of the advance at window s, when the scan there
\* stops at a mismatch.
BadCharTermAt(text, s) ==
    LET j == Scan(_pattern, text, s, Len(_pattern) - 1).j
    IN  IF j = -1 THEN 1
        ELSE j - DictGet(_bad_char_heuristic, PyGet(text, s + j), -1)

\* C10: every iteration of boyer_moore's outer loop increases shift by at
\* least 1, boyer_moore returns with shift > len(text) - m after at most
\* len(text) - m + 1 iterations, and every boyer_moore that has begun
\* returns; every iteration of the loop of _start_of_longest_sfx_as_pfx
\* starts from a non-empty suffix and drops one character of it, and the
\* constructor ends (ready, or raised for the empty pattern).
C10_Terminates ==
    /\ [][\A c \in DOMAIN calls :
             (calls[c].pc = "bm_body" /\ calls'[c].pc # "bm_body") =>
                 /\ calls'[c].pc = "bm_while"
                 /\ calls'[c].shift >= calls[c].shift + 1
                 /\ calls'[c].iters = calls[c].iters + 1]_vars
    /\ [](\A c \in SeqCallers :
             (Returned(c) /\ calls[c].alg = "boyer_moore") =>
                 /\ calls[c].shift > Len(calls[c].text) - calls[c].m
                 /\ calls[c].iters <=
                        Max(0, Len(calls[c].text) - calls[c].m + 1))
    /\ [](ctor_pc = "sfx_while" => Len(suffix) >= 1)
    /\ [][ctor_pc = "sfx_while" => Len(suffix') = Len(suffix) - 1]_vars
    /\ \A c \in SeqCallers :
           (calls[c].pc \in {"bm_while", "bm_body"}) ~> Returned(c)
    /\ <>(ctor_pc \in {"ready", "raised"})

\* boyer_moore has returned after at least two iterations, the first of them
\* a mismatch whose bad-character term is zero or negative, on a matcher for
\* which _start_of_longest_sfx_as_pfx ran down to the empty suffix.
C10_Witness ==
    \E c \in DOMAIN calls :
        /\ Returned(c)
        /\ calls[c].alg = "boyer_moore"
        /\ calls[c].iters >= 2
        /\ BadCharTermAt(calls[c].text, 0) <= 0
        /\ \E i \in DOMAIN shifts : shifts[i] = Len(_pattern)

\* C11: the good-suffix table of a constructed matcher has exactly m
\* entries for a stored pattern of length m, every entry is an integer from
\* 1 to m, and its last entry is 1; for m = 1 it is [1].  While the table is
\* being built it has one entry per finished iteration, each from 1 to m.
C11_GoodSuffixTableShape ==
    /\ ctor_pc \in {"gs_for", "sfx_while"} =>
           /\ Len(shifts) = gs_j
           /\ \A i \in DOMAIN shifts :
                  1 <= shifts[i] /\ shifts[i] <= Len(_pattern)
    /\ ctor_pc = "ready" =>
           /\ Len(_good_suffix_heuristic) = Len(_pattern)
           /\ \A i \in DOMAIN _good_suffix_heuristic :
                  /\ _good_suffix_heuristic[i] \in Int
                  /\ 1 <= _good_suffix_heuristic[i]
                  /\ _good_suffix_heuristic[i] <= Len(_pattern)
           /\ _good_suffix_heuristic[Len(_pattern)] = 1
           /\ Len(_pattern) = 1 => _good_suffix_heuristic = <<1>>

\* The matcher for "aab" is constructed: its table [3, 3, 1] has an entry
\* from the prefix case that equals m.
C11_Witness ==
    /\ ctor_pc = "ready"
    /\ _pattern = <<"a", "a", "b">>
    /\ _good_suffix_heuristic = <<3, 3, 1>>

\* The matcher for "ababbabacab" is constructed.
GsDemoReady == ctor_pc = "ready" /\ arg_pattern = GsPattern

\* C12 as stated: the good-suffix table built for "ababbabacab" is
\* [10, 9, 9, 9, 9, 9, 9, 4, 3, 1].
C12_TableAsStated ==
    GsDemoReady =>
        _good_suffix_heuristic = <<10, 9, 9, 9, 9, 9, 9, 4, 3, 1>>

\* C12 as amended: the good-suffix table built for "ababbabacab" is
\* [9, 9, 9, 9, 9, 9, 9, 9, 4, 4, 1], one entry per character of the
\* pattern, and the draft's _good_suffix computes the same list.
C12_TableAsBuilt ==
    GsDemoReady =>
        /\ _good_suffix_heuristic = <<9, 9, 9, 9, 9, 9, 9, 9, 4, 4, 1>>
        /\ _good_suffix(GsPattern) = _good_suffix_heuristic

\* The case-sensitive matcher for "ababbabacab" is constructed, its table
\* built through both the inner-occurrence and the prefix case.
C12_Witness ==
    /\ GsDemoReady
    /\ arg_case
    /\ Len(_good_suffix_heuristic) = Len(GsPattern)

\* The characters of s.
CharsOf(s) == {s[i] : i \in DOMAIN s}

\* Characters that texts hold.
TextChars == PlainChars \cup FoldChars \cup CharsOf(DemoText) \cup {"c", "x"}

\* C13: the keys of the bad-character table of a constructed matcher are
\* exactly the characters of its pattern, each mapped to the highest index
\* at which it occurs; for a character absent from the pattern the advance
\* of boyer_moore after a mismatch at j is computed with the index -1, so its
\* bad-character term is j + 1.  For "bob": 'b' -> 2, 'o' -> 1, others -1.
C13_BadCharTable ==
    ctor_pc = "ready" =>
        /\ DOMAIN _bad_char_heuristic = CharsOf(_pattern)
        /\ \A ch \in CharsOf(_pattern) :
               /\ PyGet(_pattern, _bad_char_heuristic[ch]) = ch
               /\ \A j \in 0..(Len(_pattern) - 1) :
                      PyGet(_pattern, j) = ch => j <= _bad_char_heuristic[ch]
        /\ \A ch \in TextChars \ CharsOf(_pattern) :
               /\ DictGet(_bad_char_heuristic, ch, -1) = -1
               /\ \A j \in 0..(Len(_pattern) - 1) :
                      MismatchShift(_good_suffix_heuristic, _bad_char_heuristic,
                                    j, ch)
                          = Max(PyGet(_good_suffix_heuristic, j), j + 1)
        /\ _pattern = BobPattern =>
               /\ DOMAIN _bad_char_heuristic = {"b", "o"}
               /\ _bad_char_heuristic["b"] = 2
               /\ _bad_char_heuristic["o"] = 1
               /\ DictGet(_bad_char_heuristic, "x", -1) = -1

\* boyer_moore of the matcher for "bob" has searched "bxbob": it advanced by
\* 2 past the mismatch at index 1 against 'x' and returned [2].
C13_Witness ==
    \E c \in DOMAIN calls :
        /\ Returned(c)
        /\ calls[c].alg = "boyer_moore"
        /\ _pattern = BobPattern
        /\ calls[c].arg = <<"b", "x", "b", "o", "b">>
        /\ calls[c].iters = 2
        /\ calls[c].positions = <<2>>

=============================================================================
